---- MODULE Spec2Model ----
(***************************************************************************)
(* dumbrouter (src/main.rs): a Docker name-based HTTP router.              *)
(*                                                                         *)
(* Strings are sequences of one-character strings, so that split, join,    *)
(* prefix tests and format! are computed and not assumed. Option<T> is a   *)
(* sequence of length 0 (None) or 1 (Some(x)).                             *)
(***************************************************************************)
EXTENDS Integers, Sequences, FiniteSets, TLC

VARIABLES
    pc,            \* position of the request in the router / handler
    method,        \* req.method()
    host,          \* conn.host()
    headers,       \* req.headers(), as iterated: a sequence of (name, value)
    body,          \* Option<web::Bytes>
    path,          \* web::Path<String>
    localhost_ip,  \* env::var("LOCALHOST_IP"), as an Option
    host_parts,    \* handler's host_parts
    service,       \* handler's service
    listing,       \* what docker.list_containers returned (Ok value)
    verdicts,      \* per listed container: the return statement filter_map's closure took
    dest_host,     \* Option<String> returned by dest_host_for_service
    chosen,        \* index in listing of the container choose() drew (0: none)
    outbound,      \* Option: the request handed to builder.send()
    res,           \* Option: the backend's response head (status, headers)
    response,      \* Option: the HttpResponse returned to the client
    outcome,       \* which return statement ended the request
    trace          \* the steps taken for this request, in order

vars == <<pc, method, host, headers, body, path, localhost_ip, host_parts, service,
          listing, verdicts, dest_host, chosen, outbound, res, response, outcome, trace>>

----------------------------------------------------------------------------
\* Bounds of the model.

MaxHostLen == 5
MaxPorts == 2
MaxListing == 3
MaxHeaders == 2

----------------------------------------------------------------------------
\* Option and string helpers.

None == <<>>
Some(x) == <<x>>
is_none(o) == Len(o) = 0
is_some(o) == Len(o) = 1
unwrap(o) == o[1]

Range(s) == {s[i] : i \in DOMAIN s}

SeqsUpTo(S, n) == UNION {[1..k -> S] : k \in 0..n}

DigitChars == <<"0", "1", "2", "3", "4", "5", "6", "7", "8", "9">>

RECURSIVE ToDecimal(_)
ToDecimal(n) ==
    IF n < 10 THEN <<DigitChars[n + 1]>>
    ELSE ToDecimal(n \div 10) \o <<DigitChars[(n % 10) + 1]>>

\* str::split(sep): the pieces between occurrences of sep; always at least one piece.
RECURSIVE SplitFrom(_, _, _)
SplitFrom(s, sep, cur) ==
    IF s = <<>> THEN <<cur>>
    ELSE IF Head(s) = sep THEN <<cur>> \o SplitFrom(Tail(s), sep, <<>>)
    ELSE SplitFrom(Tail(s), sep, Append(cur, Head(s)))

split(s, sep) == SplitFrom(s, sep, <<>>)

RECURSIVE join_concat(_, _)
join_concat(parts, sep) ==
    IF parts = <<>> THEN <<>> ELSE parts[1] \o join_concat(Tail(parts), sep)

\* [String]::join(sep)
RECURSIVE join(_, _)
join(parts, sep) ==
    IF parts = <<>> THEN <<>>
    ELSE IF Len(parts) = 1 THEN parts[1]
    ELSE parts[1] \o <<sep>> \o join(Tail(parts), sep)

----------------------------------------------------------------------------
\* Service Name Resolver.

ROOT == <<"_", "r", "o", "o", "t">>

\* line 158 on an empty Vec: len - 2 underflows and split_at panics.
service_from_host_parts_panics(parts) == Len(parts) = 0

service_from_host_parts_keep_one(parts) ==
    LET len == Len(parts) IN
    CASE len = 1 -> parts[1]
      [] len = 2 -> ROOT
      [] OTHER   -> join(SubSeq(parts, 1, len - 1), ".")

service_from_host_parts(parts) ==
    LET len == Len(parts) IN
    CASE len = 1 -> parts[1]
      [] len = 2 -> ROOT
      [] OTHER   -> join(SubSeq(parts, 1, len - 2), ".")

\* handler lines 83-87: drop the port, split into labels.
host_parts_of(h) == split(split(h, ":")[1], ".")

----------------------------------------------------------------------------
\* Inputs of the resolver.

HostChars == {"a", "b", ".", ":"}

LOCALHOST == <<"l", "o", "c", "a", "l", "h", "o", "s", "t">>
EXAMPLE_COM == <<"e", "x", "a", "m", "p", "l", "e", ".", "c", "o", "m">>
SVC_EXAMPLE_COM == <<"s", "v", "c", ".">> \o EXAMPLE_COM
FOO_EXAMPLE_COM == <<"f", "o", "o", ".">> \o EXAMPLE_COM
AB_EXAMPLE_COM == <<"a", ".", "b", ".">> \o EXAMPLE_COM
ABCD_EXAMPLE_COM == <<"a", ".", "b", ".", "c", ".", "d", ".">> \o EXAMPLE_COM
PORT_8080 == <<":", "8", "0", "8", "0">>

NamedHosts ==
    {LOCALHOST, EXAMPLE_COM, SVC_EXAMPLE_COM, FOO_EXAMPLE_COM, AB_EXAMPLE_COM,
     ABCD_EXAMPLE_COM,
     LOCALHOST \o PORT_8080, SVC_EXAMPLE_COM \o PORT_8080, ABCD_EXAMPLE_COM \o PORT_8080}

Hosts == SeqsUpTo(HostChars, MaxHostLen) \cup NamedHosts

Idle ==
    /\ method = "GET"
    /\ headers = <<>>
    /\ body = None
    /\ path = <<>>
    /\ host_parts = <<>>
    /\ service = <<>>
    /\ listing = <<>>
    /\ verdicts = <<>>
    /\ dest_host = None
    /\ chosen = 0
    /\ outbound = None
    /\ res = None
    /\ response = None
    /\ outcome = "none"
    /\ trace = <<>>

InitResolve ==
    /\ Idle
    /\ pc = "resolve"
    /\ host \in Hosts
    /\ localhost_ip = None

\* handler lines 83-88 applied to conn.host().
Resolve ==
    /\ pc = "resolve"
    /\ host_parts' = host_parts_of(host)
    /\ service' = service_from_host_parts(host_parts_of(host))
    /\ pc' = "resolved"
    /\ UNCHANGED <<method, host, headers, body, path, localhost_ip, listing, verdicts,
                   dest_host, chosen, outbound, res, response, outcome, trace>>

NextResolve == Resolve
SpecResolve == InitResolve /\ [][NextResolve]_vars

----------------------------------------------------------------------------
\* Backend Selector: dest_host_for_service.

HTTP_BASE == <<"/", "h", "t", "t", "p", "-">>
HTTP_PROD == <<"/", "h", "t", "t", "p", "-", "p", "r", "o", "d", "-">>
HOST_DOCKER_INTERNAL ==
    <<"h", "o", "s", "t", ".", "d", "o", "c", "k", "e", "r", ".",
      "i", "n", "t", "e", "r", "n", "a", "l">>

\* name.get(..n).unwrap(): the first n bytes (container names are ASCII).
get_to(name, n) == SubSeq(name, 1, n)

name_rejected_base_only(name, svc) ==
    LET start_base == HTTP_BASE \o svc IN
    \/ Len(name) < Len(start_base)
    \/ get_to(name, Len(start_base)) # start_base

\* lines 190-197: TRUE when the closure returns None for this name.
name_rejected(name, svc) ==
    LET start_base == HTTP_BASE \o svc
        start_prod == HTTP_PROD \o svc
    IN  \/ Len(name) < Len(start_base)
        \/ /\ get_to(name, Len(start_base)) # start_base
           /\ \/ Len(name) < Len(start_prod)
              \/ get_to(name, Len(start_prod)) # start_prod

port_eligible_any_port(p) == is_some(p.public_port)

\* line 215
port_eligible(p) == is_some(p.ip) /\ is_some(p.public_port)

\* lines 229-233
format_dest(env_ip, port) ==
    (IF is_some(env_ip) THEN unwrap(env_ip) ELSE HOST_DOCKER_INTERNAL)
        \o <<":">> \o ToDecimal(unwrap(port.public_port))

Reject(why) == [verdict |-> why, value |-> None]

\* lines 177-234: the closure given to filter_map, with the return statement taken.
closure(c, svc, env_ip) ==
    IF is_none(c.names) THEN Reject("names_none")
    ELSE LET names == unwrap(c.names) IN
    IF Len(names) # 1 THEN Reject("names_len")
    ELSE LET name == names[1] IN
    IF name_rejected(name, svc) THEN Reject("prefix")
    ELSE IF is_none(c.ports) THEN Reject("ports_none")
    ELSE LET ports == unwrap(c.ports) IN
    IF Len(ports) < 1 THEN Reject("ports_empty")
    ELSE LET eligible == SelectSeq(ports, port_eligible) IN
    IF Len(eligible) < 1 THEN Reject("ports_unbound")
    ELSE [verdict |-> "some", value |-> Some(format_dest(env_ip, eligible[1]))]

closures(l, svc, env_ip) == [i \in DOMAIN l |-> closure(l[i], svc, env_ip)]

\* .iter().filter_map(..): the indices of the containers the closure kept, in order.
filter_map(l, svc, env_ip) ==
    SelectSeq([i \in DOMAIN l |-> i],
              LAMBDA i : is_some(closure(l[i], svc, env_ip).value))

choose_first(n) == IF n = 0 THEN {0} ELSE {1}

\* IteratorRandom::choose over n items: the positions it can return (0: None).
choose(n) == IF n = 0 THEN {0} ELSE 1..n

\* choose's result for position k of the kept containers kept.
dest_at(l, svc, env_ip, kept, k) ==
    IF k = 0 THEN None ELSE closure(l[kept[k]], svc, env_ip).value

----------------------------------------------------------------------------
\* Inputs of the selector.

FOO == <<"f", "o", "o">>
FO == <<"f", "o">>
SVC == <<"s", "v", "c">>
Services == {FOO, FO, SVC, <<>>}

N_HTTP_FOO == HTTP_BASE \o FOO
N_HTTP_PROD_FOO == HTTP_PROD \o FOO
N_HTTPFOO == <<"/", "h", "t", "t", "p">> \o FOO
N_HTTP_FO == HTTP_BASE \o FO
N_UPPER_FOO == <<"/", "H", "T", "T", "P", "-">> \o FOO
N_HTTP_PRO == <<"/", "h", "t", "t", "p", "-", "p", "r", "o">>
N_HTTP_FOOBAR == HTTP_BASE \o FOO \o <<"b", "a", "r">>
N_HTTP_PROD_SVC == HTTP_PROD \o SVC
N_DB == <<"/", "d", "b">>

ContainerNames ==
    {N_HTTP_FOO, N_HTTP_PROD_FOO, N_HTTPFOO, N_HTTP_FO, N_UPPER_FOO, N_HTTP_PRO,
     N_HTTP_FOOBAR, N_HTTP_PROD_SVC, N_DB}

NameOpts ==
    {None, Some(<<>>)} \cup {Some(<<n>>) : n \in ContainerNames}
        \cup {Some(<<N_HTTP_FOO, N_DB>>), Some(<<N_HTTP_FOO, N_HTTP_PROD_FOO>>)}

IP_ANY == <<"0", ".", "0", ".", "0", ".", "0">>
IP_ANY6 == <<":", ":">>

Port(ip, private, public) == [ip |-> ip, private_port |-> private, public_port |-> public]

P_UNBOUND == Port(None, 80, None)
P_IP_ONLY == Port(Some(IP_ANY), 80, None)
P_PORT_ONLY == Port(None, 80, Some(8081))
P_A == Port(Some(IP_ANY), 80, Some(49200))
P_B == Port(Some(IP_ANY6), 443, Some(9))

PortMappings == {P_UNBOUND, P_IP_ONLY, P_PORT_ONLY, P_A, P_B}

PortOpts == {None} \cup {Some(ps) : ps \in SeqsUpTo(PortMappings, MaxPorts)}

Container(names, ports) == [names |-> names, ports |-> ports]

Containers == {Container(n, ps) : n \in NameOpts, ps \in PortOpts}

\* the containers that listings of several are made of
CoreContainers ==
    {Container(Some(<<N_HTTP_FOO>>), Some(<<P_A>>)),
     Container(Some(<<N_HTTP_PROD_FOO>>), Some(<<P_UNBOUND, P_B>>)),
     Container(Some(<<N_HTTP_FOO>>), None),
     Container(Some(<<N_HTTP_FO>>), Some(<<P_IP_ONLY>>)),
     Container(Some(<<N_HTTPFOO>>), Some(<<P_B>>)),
     Container(Some(<<N_HTTP_FOO, N_DB>>), Some(<<P_A>>))}

Listings == {<<c>> : c \in Containers} \cup SeqsUpTo(CoreContainers, MaxListing)

LOCALHOST_IP_SET == <<"1", "0", ".", "0", ".", "0", ".", "5">>
EnvValues == {None, Some(LOCALHOST_IP_SET)}

InitSelect ==
    /\ method = "GET"
    /\ headers = <<>>
    /\ body = None
    /\ path = <<>>
    /\ host = <<>>
    /\ host_parts = <<>>
    /\ verdicts = <<>>
    /\ dest_host = None
    /\ chosen = 0
    /\ outbound = None
    /\ res = None
    /\ response = None
    /\ outcome = "none"
    /\ trace = <<>>
    /\ pc = "select"
    /\ service \in Services
    /\ listing \in Listings
    /\ localhost_ip \in EnvValues

\* lines 176-235 applied to a listing that list_containers returned.
Select ==
    /\ pc = "select"
    /\ LET kept == filter_map(listing, service, localhost_ip) IN
       \E k \in choose(Len(kept)) :
          /\ dest_host' = dest_at(listing, service, localhost_ip, kept, k)
          /\ chosen' = IF k = 0 THEN 0 ELSE kept[k]
    /\ verdicts' = [i \in DOMAIN listing |->
                      closures(listing, service, localhost_ip)[i].verdict]
    /\ pc' = "selected"
    /\ UNCHANGED <<method, host, headers, body, path, localhost_ip, host_parts,
                   service, listing, outbound, res, response, outcome, trace>>

NextSelect == Select
SpecSelect == InitSelect /\ [][NextSelect]_vars

----------------------------------------------------------------------------
\* Request Dispatcher and Forwarding Proxy: main's routes, handler,
\* unsupported_handler, die.

VERSION == "CARGO_PKG_VERSION"

Methods == {"GET", "POST", "PUT", "DELETE", "HEAD", "OPTIONS", "CONNECT", "TRACE", "PATCH"}

supported_methods_with_patch == {"GET", "POST", "PUT", "DELETE", "HEAD", "OPTIONS", "PATCH"}

supported_methods == {"GET", "POST", "PUT", "DELETE", "HEAD", "OPTIONS"}

unsupported_methods_connect_only == {"CONNECT"}

unsupported_methods == {"CONNECT", "TRACE"}

Response(status, hdrs, bytes) == [status |-> status, headers |-> hdrs, body |-> bytes]

die_with_reason(reason) ==
    Response(500, <<>>, <<"Internal Server Error: ", reason, " (dumbrouter/", VERSION, ")">>)

die(reason) ==
    Response(500, <<>>, <<"Internal Server Error (dumbrouter/", VERSION, ")">>)

\* lines 99-101
no_backend_response(svc) ==
    Response(500, <<>>,
             <<"No backend found for service ">> \o svc \o <<".  (dumbrouter/", VERSION, ")">>)

\* lines 239-241
not_implemented_response ==
    Response(501, <<>>, <<"This method is not supported.  (dumbrouter/", VERSION, ")">>)

\* No route matches: actix-web's default service answers, not this program.
default_service_response == Response(404, <<>>, <<>>)

header_map_append(map, k, v) == Append(map, [name |-> k, value |-> v])

\* http::HeaderMap::insert: the value replaces every value the name had.
header_map_insert(map, k, v) ==
    Append(SelectSeq(map, LAMBDA e : e.name # k), [name |-> k, value |-> v])

\* lines 106-114
RECURSIVE copy_headers(_, _)
copy_headers(hs, map) ==
    IF hs = <<>> THEN map
    ELSE copy_headers(Tail(hs), header_map_insert(map, Head(hs).name, Head(hs).value))

\* line 116
format_url(dest, p) == <<"h", "t", "t", "p", ":", "/", "/">> \o dest \o <<"/">> \o p

\* lines 106-125: the request given to send().
build_request(m, hs, b, p, dest) ==
    [method |-> m, url |-> format_url(dest, p),
     headers |-> copy_headers(hs, <<>>), body |-> b]

----------------------------------------------------------------------------
\* Inputs of the handler.

RequestHosts == {SVC_EXAMPLE_COM \o PORT_8080, FOO_EXAMPLE_COM, LOCALHOST}

HeaderPairs ==
    {[name |-> "accept", value |-> "text/html"],
     [name |-> "accept", value |-> "*/*"],
     [name |-> "x-id", value |-> "7"]}

\* HeaderMap iterates the values of one name together.
Grouped(hs) ==
    \A i, j, k \in DOMAIN hs : (i < j /\ j < k /\ hs[i].name = hs[k].name)
                                    => hs[j].name = hs[i].name

HeaderLists == {hs \in SeqsUpTo(HeaderPairs, MaxHeaders) : Grouped(hs)}

Bodies == {None, Some(<<"x">>)}
Paths == {<<>>, <<"a", "/", "b">>}

C_PROD_SVC == Container(Some(<<N_HTTP_PROD_SVC>>), Some(<<P_A>>))
C_FOO == Container(Some(<<N_HTTP_FOO>>), Some(<<P_UNBOUND, P_B>>))
C_FOO_NO_PORTS == Container(Some(<<N_HTTP_FOO>>), Some(<<>>))
C_DB == Container(Some(<<N_DB>>), Some(<<P_A>>))

RegistryListings ==
    {<<>>, <<C_DB, C_PROD_SVC>>, <<C_FOO_NO_PORTS, C_FOO, C_PROD_SVC>>}

BackendHeads ==
    {[status |-> 200, headers |-> <<[name |-> "set-cookie", value |-> "a"],
                                    [name |-> "set-cookie", value |-> "b"]>>],
     [status |-> 404, headers |-> <<>>]}

BackendBodies == {<<>>, <<"o", "k">>}

Init ==
    /\ pc = "accept"
    /\ method \in Methods
    /\ host \in RequestHosts
    /\ headers \in HeaderLists
    /\ body \in Bodies
    /\ path \in Paths
    /\ localhost_ip \in EnvValues
    /\ host_parts = <<>>
    /\ service = <<>>
    /\ listing = <<>>
    /\ verdicts = <<>>
    /\ dest_host = None
    /\ chosen = 0
    /\ outbound = None
    /\ res = None
    /\ response = None
    /\ outcome = "none"
    /\ trace = <<>>

\* lines 55-57: the routes of the supported methods lead to handler.
RouteHandler ==
    /\ pc = "accept"
    /\ method \in supported_methods
    /\ pc' = "handler"
    /\ UNCHANGED <<method, host, headers, body, path, localhost_ip, host_parts, service,
                   listing, verdicts, dest_host, chosen, outbound, res, response,
                   outcome, trace>>

\* lines 59-61 and 238-242; these routes are registered after the supported ones.
UnsupportedHandler ==
    /\ pc = "accept"
    /\ method \notin supported_methods
    /\ method \in unsupported_methods
    /\ response' = Some(not_implemented_response)
    /\ outcome' = "Unsupported"
    /\ pc' = "done"
    /\ UNCHANGED <<method, host, headers, body, path, localhost_ip, host_parts, service,
                   listing, verdicts, dest_host, chosen, outbound, res, trace>>

\* a method with no route
DefaultService ==
    /\ pc = "accept"
    /\ method \notin supported_methods
    /\ method \notin unsupported_methods
    /\ response' = Some(default_service_response)
    /\ outcome' = "Unrouted"
    /\ pc' = "done"
    /\ UNCHANGED <<method, host, headers, body, path, localhost_ip, host_parts, service,
                   listing, verdicts, dest_host, chosen, outbound, res, trace>>

\* lines 83-90 and 166-175: up to the await of list_containers.
HandlerStart ==
    /\ pc = "handler"
    /\ host_parts' = host_parts_of(host)
    /\ service' = service_from_host_parts(host_parts_of(host))
    /\ trace' = trace \o <<"resolve", "list_containers">>
    /\ pc' = "list_containers"
    /\ UNCHANGED <<method, host, headers, body, path, localhost_ip, listing, verdicts,
                   dest_host, chosen, outbound, res, response, outcome>>

\* line 175 (?) and lines 92-94: list_containers failed.
ListContainersErr ==
    /\ pc = "list_containers"
    /\ response' = Some(die("list_containers"))
    /\ outcome' = "RegistryFailure"
    /\ trace' = Append(trace, "respond")
    /\ pc' = "done"
    /\ UNCHANGED <<method, host, headers, body, path, localhost_ip, host_parts, service,
                   listing, verdicts, dest_host, chosen, outbound, res>>

\* lines 175-235 and 96-127: list_containers returned l; select; without a backend
\* answer (lines 98-102), with one build the request and send it.
ListContainersOk ==
    /\ pc = "list_containers"
    /\ \E l \in RegistryListings :
         LET kept == filter_map(l, service, localhost_ip) IN
         \E k \in choose(Len(kept)) :
           LET dest == dest_at(l, service, localhost_ip, kept, k) IN
           /\ listing' = l
           /\ verdicts' = [i \in DOMAIN l |-> closures(l, service, localhost_ip)[i].verdict]
           /\ dest_host' = dest
           /\ chosen' = IF k = 0 THEN 0 ELSE kept[k]
           /\ IF is_none(dest)
              THEN /\ response' = Some(no_backend_response(service))
                   /\ outcome' = "NoBackend"
                   /\ trace' = trace \o <<"select", "respond">>
                   /\ pc' = "done"
                   /\ UNCHANGED outbound
              ELSE /\ outbound' = Some(build_request(method, headers, body, path, unwrap(dest)))
                   /\ trace' = trace \o <<"select", "send">>
                   /\ pc' = "send"
                   /\ UNCHANGED <<response, outcome>>
    /\ UNCHANGED <<method, host, headers, body, path, localhost_ip, host_parts, service, res>>

SendErrRetry ==
    /\ pc = "send"
    /\ Len(trace) < 8
    /\ trace' = Append(trace, "send")
    /\ UNCHANGED <<pc, method, host, headers, body, path, localhost_ip, host_parts,
                   service, listing, verdicts, dest_host, chosen, outbound, res,
                   response, outcome>>

\* lines 127-131: send failed.
SendErr ==
    /\ pc = "send"
    /\ response' = Some(die("send"))
    /\ outcome' = "ForwardFailure"
    /\ trace' = Append(trace, "respond")
    /\ pc' = "done"
    /\ UNCHANGED <<method, host, headers, body, path, localhost_ip, host_parts, service,
                   listing, verdicts, dest_host, chosen, outbound, res>>

\* lines 127-141: the backend answered; up to the await of bytes().
SendOk ==
    /\ pc = "send"
    /\ \E r \in BackendHeads : res' = Some(r)
    /\ pc' = "bytes"
    /\ UNCHANGED <<method, host, headers, body, path, localhost_ip, host_parts, service,
                   listing, verdicts, dest_host, chosen, outbound, response, outcome,
                   trace>>

\* lines 141-145: reading the body failed.
BytesErr ==
    /\ pc = "bytes"
    /\ response' = Some(die("bytes"))
    /\ outcome' = "ForwardFailure"
    /\ trace' = Append(trace, "respond")
    /\ pc' = "done"
    /\ UNCHANGED <<method, host, headers, body, path, localhost_ip, host_parts, service,
                   listing, verdicts, dest_host, chosen, outbound, res>>

\* lines 135-139
RECURSIVE append_headers(_, _)
append_headers(hs, map) ==
    IF hs = <<>> THEN map
    ELSE append_headers(Tail(hs), header_map_append(map, Head(hs).name, Head(hs).value))

\* lines 135-147: relay status, headers and body.
BytesOk ==
    /\ pc = "bytes"
    /\ \E b \in BackendBodies :
         response' = Some(Response(unwrap(res).status,
                                   append_headers(unwrap(res).headers, <<>>), b))
    /\ outcome' = "Respond"
    /\ trace' = Append(trace, "respond")
    /\ pc' = "done"
    /\ UNCHANGED <<method, host, headers, body, path, localhost_ip, host_parts, service,
                   listing, verdicts, dest_host, chosen, outbound, res>>

Next ==
    \/ RouteHandler
    \/ UnsupportedHandler
    \/ DefaultService
    \/ HandlerStart
    \/ ListContainersErr
    \/ ListContainersOk
    \/ SendErr
    \/ SendOk
    \/ BytesErr
    \/ BytesOk

Spec == Init /\ [][Next]_vars

----------------------------------------------------------------------------
\* Claims about the resolver (checked under SpecResolve).

Resolved == pc = "resolved"

\* C2: service_from_host_parts does not panic on the labels of any hostname, and
\* returns the single label for 1 label, "_root" for 2 labels, and for N >= 3
\* labels the first N-2 labels, in order, joined by "." (stated through the
\* inverse: splitting the result on "." gives back exactly those labels).
C2_ServiceFromHostParts ==
    Resolved =>
        LET n == Len(host_parts) IN
        /\ ~service_from_host_parts_panics(host_parts)
        /\ n = 1 => service = host_parts[1]
        /\ n = 2 => service = ROOT
        /\ n >= 3 => split(service, ".") = [i \in 1..(n - 2) |-> host_parts[i]]

C2_Witness ==
    /\ Resolved
    /\ host = AB_EXAMPLE_COM
    /\ Len(host_parts) = 4
    /\ service = <<"a", ".", "b">>

\* C8 as stated: "a.b.c.d.example.com" resolves to "a.b".
C8_Original ==
    (Resolved /\ host = ABCD_EXAMPLE_COM) => service = <<"a", ".", "b">>

\* C8 amended: "a.b.c.d.example.com" (6 labels) resolves to its first 4 labels
\* joined by ".", that is "a.b.c.d".
C8_Amended ==
    (Resolved /\ host = ABCD_EXAMPLE_COM) =>
        /\ Len(host_parts) = 6
        /\ service = <<"a", ".", "b", ".", "c", ".", "d">>

C8_Witness ==
    /\ Resolved
    /\ host = ABCD_EXAMPLE_COM
    /\ host_parts[5] = <<"e", "x", "a", "m", "p", "l", "e">>

----------------------------------------------------------------------------
\* Claims about the selector (checked under SpecSelect).

Selected == pc = "selected"

StartsWith(str, prefix) ==
    /\ Len(prefix) <= Len(str)
    /\ \A i \in 1..Len(prefix) : str[i] = prefix[i]

NameEligible(c, svc) ==
    /\ is_some(c.names)
    /\ Len(unwrap(c.names)) = 1
    /\ \/ StartsWith(unwrap(c.names)[1], HTTP_BASE \o svc)
       \/ StartsWith(unwrap(c.names)[1], HTTP_PROD \o svc)

Bound(p) == p.ip # None /\ p.public_port # None

Survives(c, svc) ==
    /\ NameEligible(c, svc)
    /\ is_some(c.ports)
    /\ \E j \in DOMAIN unwrap(c.ports) : Bound(unwrap(c.ports)[j])

Survivors == {i \in DOMAIN listing : Survives(listing[i], service)}

PassedNameFilter(i) == verdicts[i] \notin {"names_none", "names_len", "prefix"}

\* C1: a listed container passes the name filter iff it reports exactly one name and
\* that name starts with "/http-" + service or "/http-prod-" + service; containers
\* with no names field, zero names or several names never pass, and "/httpfoo" does
\* not pass for service "foo".
C1_NameFilter ==
    Selected =>
        \A i \in DOMAIN listing :
            /\ PassedNameFilter(i) <=> NameEligible(listing[i], service)
            /\ (listing[i].names = None \/ Len(unwrap(listing[i].names)) # 1)
                    => ~PassedNameFilter(i)
            /\ (service = FOO /\ listing[i].names = Some(<<N_HTTPFOO>>))
                    => ~PassedNameFilter(i)

C1_Witness ==
    /\ Selected
    /\ service = FOO
    /\ Len(listing) = 3
    /\ listing[1].names = Some(<<N_HTTP_PROD_FOO>>) /\ PassedNameFilter(1)
    /\ listing[2].names = Some(<<N_HTTPFOO>>) /\ ~PassedNameFilter(2)
    /\ listing[3].names = Some(<<N_HTTP_FOO, N_DB>>) /\ ~PassedNameFilter(3)

SelectOf(i) == Select /\ chosen' = i

\* C3: the selection is none iff no listed container survives all filters;
\* otherwise it is the candidate of a surviving container, never of a rejected one;
\* every survivor can be the one drawn, and a single survivor always is. A container
\* rejected for its ports does not stop the evaluation of the others.
C3_Selection ==
    /\ Selected =>
        /\ dest_host = None <=> Survivors = {}
        /\ chosen = 0 <=> dest_host = None
        /\ dest_host # None =>
            /\ chosen \in Survivors
            /\ verdicts[chosen] = "some"
        /\ \A i \in DOMAIN listing : verdicts[i] = "some" <=> i \in Survivors
        /\ Cardinality(Survivors) = 1 => chosen \in Survivors
    /\ pc = "select" => \A i \in Survivors : ENABLED SelectOf(i)

C3_Witness ==
    /\ Selected
    /\ Len(listing) = 3
    /\ verdicts = <<"ports_none", "some", "some">>
    /\ chosen = 3

FirstBound(ports, j) ==
    /\ j \in DOMAIN ports
    /\ Bound(ports[j])
    /\ \A k \in 1..(j - 1) : ~Bound(ports[k])

\* C7: the candidate of a surviving container is "<H>:<P>", H being LOCALHOST_IP when
\* set and host.docker.internal otherwise (never the mapping's IP), P the host port of
\* the first mapping, in listing order, that has both a host IP and a host port.
C7_Endpoint ==
    (Selected /\ chosen # 0) =>
        LET ports == unwrap(listing[chosen].ports)
            H == IF localhost_ip = None THEN HOST_DOCKER_INTERNAL ELSE localhost_ip[1]
        IN  \E j \in DOMAIN ports :
                /\ FirstBound(ports, j)
                /\ dest_host = Some(H \o <<":">> \o ToDecimal(ports[j].public_port[1]))
                /\ ~StartsWith(unwrap(dest_host), unwrap(ports[j].ip))

C7_Witness ==
    /\ Selected
    /\ localhost_ip = None
    /\ chosen = 1
    /\ unwrap(listing[1].ports) = <<P_PORT_ONLY, P_A>>
    /\ dest_host = Some(HOST_DOCKER_INTERNAL \o <<":", "4", "9", "2", "0", "0">>)

----------------------------------------------------------------------------
\* Claims about the dispatcher and the proxy (checked under Spec).

NotImplemented501 ==
    [status |-> 501, headers |-> <<>>,
     body |-> <<"This method is not supported.  (dumbrouter/", VERSION, ")">>]

InternalError500 ==
    [status |-> 500, headers |-> <<>>,
     body |-> <<"Internal Server Error (dumbrouter/", VERSION, ")">>]

Untouched ==
    /\ trace = <<>>
    /\ host_parts = <<>> /\ service = <<>>
    /\ listing = <<>> /\ verdicts = <<>> /\ dest_host = None
    /\ outbound = None /\ res = None

\* C4: a CONNECT or TRACE request ends with the fixed 501 response, and nothing of
\* its handling resolves the host, queries the registry or sends a request.
C4_UnsupportedMethods ==
    method \in {"CONNECT", "TRACE"} =>
        /\ Untouched
        /\ pc \in {"accept", "done"}
        /\ pc = "accept" => ENABLED UnsupportedHandler
        /\ pc = "done" => response = Some(NotImplemented501)

C4_Witness ==
    /\ method = "TRACE"
    /\ host = FOO_EXAMPLE_COM
    /\ pc = "done"
    /\ response = Some(NotImplemented501)

\* C5 as stated: the request sent to the backend has the inbound method and every
\* inbound header name/value pair, each value of a repeated name included.
C5_HeadersPreserved ==
    outbound # None =>
        /\ unwrap(outbound).method = method
        /\ \A i \in DOMAIN headers : headers[i] \in Range(unwrap(outbound).headers)

ErrKinds == {"RegistryFailure", "NoBackend", "ForwardFailure"}

ResponsesOf(kind) ==
    CASE kind = "RegistryFailure" -> {die("list_containers")}
      [] kind = "ForwardFailure"  -> {die("send"), die("bytes")}
      [] kind = "NoBackend"       -> {no_backend_response(service_from_host_parts(host_parts_of(h)))
                                         : h \in RequestHosts}

\* C6 as stated: no two of RegistryFailure, NoBackend and ForwardFailure answer the
\* client with the same status and body.
C6_Original ==
    outcome \in ErrKinds =>
        \A other \in ErrKinds \ {outcome} : unwrap(response) \notin ResponsesOf(other)

\* C6 amended: the three error states are terminal; RegistryFailure and
\* ForwardFailure both answer with the same generic 500 "Internal Server Error"
\* response, and NoBackend answers with a 500 naming the service, which differs from it.
C6_Amended ==
    outcome \in ErrKinds =>
        /\ pc = "done"
        /\ ~ENABLED Next
        /\ outcome \in {"RegistryFailure", "ForwardFailure"}
                => response = Some(InternalError500)
        /\ outcome = "NoBackend" =>
                /\ response # Some(InternalError500)
                /\ unwrap(response).status = 500
                /\ unwrap(response).body =
                      <<"No backend found for service ">> \o service
                          \o <<".  (dumbrouter/", VERSION, ")">>

C6_Witness ==
    /\ outcome = "ForwardFailure"
    /\ res # None
    /\ response = Some(InternalError500)

Count(t, e) == Cardinality({i \in DOMAIN t : t[i] = e})

IsPrefixOf(t, run) == Len(t) <= Len(run) /\ \A i \in DOMAIN t : t[i] = run[i]

HandlerRuns ==
    {<<"resolve", "list_containers", "respond">>,
     <<"resolve", "list_containers", "select", "respond">>,
     <<"resolve", "list_containers", "select", "send", "respond">>}

\* C9: handler's steps occur in the order resolve, list, select, send, respond,
\* without retry: one listing, at most one outbound request and only after a
\* successful listing and a selected endpoint, and after a registry failure, no
\* backend or a forward failure nothing more but the one response.
C9_NoRetry ==
    pc \notin {"accept", "handler"} /\ method \in supported_methods =>
        /\ \E run \in HandlerRuns : IsPrefixOf(trace, run)
        /\ Count(trace, "list_containers") = 1
        /\ Count(trace, "send") <= 1
        /\ Count(trace, "send") = 1 <=> outbound # None
        /\ outbound # None => /\ dest_host # None
                              /\ Count(trace, "select") = 1
                              /\ outcome # "RegistryFailure"
        /\ pc = "done" <=> Count(trace, "respond") = 1
        /\ pc = "done" <=> response # None
        /\ outcome = "RegistryFailure" => trace = <<"resolve", "list_containers", "respond">>
        /\ outcome = "NoBackend" => trace = <<"resolve", "list_containers", "select", "respond">>
        /\ outcome = "ForwardFailure" =>
              trace = <<"resolve", "list_containers", "select", "send", "respond">>
        /\ pc = "done" => ~ENABLED Next

C9_Witness ==
    /\ outcome = "ForwardFailure"
    /\ res = None
    /\ trace = <<"resolve", "list_containers", "select", "send", "respond">>

\* C10: a request whose method is none of the eight routed ones (PATCH) reaches
\* neither handler nor unsupported_handler: nothing is forwarded and the response
\* is not the fixed 501.
C10_UnroutedMethod ==
    method \notin {"GET", "POST", "PUT", "DELETE", "HEAD", "OPTIONS", "CONNECT", "TRACE"} =>
        /\ Untouched
        /\ pc \in {"accept", "done"}
        /\ outcome \in {"none", "Unrouted"}
        /\ response # Some(NotImplemented501)
        /\ ~ENABLED RouteHandler
        /\ ~ENABLED UnsupportedHandler

C10_Witness ==
    /\ method = "PATCH"
    /\ pc = "done"
    /\ outcome = "Unrouted"

====
